---- MODULE Spec2Model ----
(***************************************************************************)
(* Model of the dataset-preparation toolkit:                               *)
(*   image_enhancement.py   (load_config, apply_enhancement,               *)
(*                           process_dataset, main)                        *)
(*   json2txt_converter.py  (load_classes, convert_json_to_txt, main)      *)
(* One behaviour is one run of one entry point, chosen by `prog`.          *)
(***************************************************************************)
EXTENDS Integers, Sequences, FiniteSets, TLC

VARIABLES
    prog,       \* entry point of this run
    pc,         \* position of the run
    listing,    \* os.listdir() of the input directory, in listing order
    i,          \* 1-based index of the loop over listing
    visited,    \* entries the loop body has been entered for, in order
    log,        \* lines printed to stdout, in order
    annotated,  \* base names X for which annotation_dir/X.json exists
    config,     \* the loaded configuration document
    dirs,       \* output directories created
    k,          \* 1-based index of the loop over config['enhancements']
    img,        \* the image object bound to `img` in process_dataset
    enhanced,   \* per alias of the current image, the source it was computed from
    imgOut,     \* files under output_root/images_*: path -> pixel data
    annOut,     \* files under output_root/annotations_*: path -> document
    args,       \* parsed command line of the converter
    classes,    \* the class list handed to convert_json_to_txt
    data,       \* json.load() result of the file being converted
    txtOut,     \* files under save_dir: name -> content
    ret         \* return value / raised error of a directly called function

vars == <<prog, pc, listing, i, visited, log, annotated, config, dirs, k, img,
          enhanced, imgOut, annOut, args, classes, data, txtOut, ret>>

---------------------------------------------------------------------------
(* Bounds *)

\* longest directory listing
MaxFiles == 2
\* most shapes in one annotation document
MaxShapes == 2

---------------------------------------------------------------------------
(* Helpers *)

Range(s) == {s[j] : j \in DOMAIN s}

SeqsUpTo(S, n) == UNION {[1..m -> S] : m \in 0..n}

Distinct(s) == \A a, b \in DOMAIN s : a # b => s[a] # s[b]

Put(f, key, val) == [x \in DOMAIN f \cup {key} |-> IF x = key THEN val ELSE f[x]]

Empty == <<>>

\* str.lower() on the extensions that occur
Lower(ext) ==
    CASE ext = ".JPG" -> ".jpg"
      [] ext = ".JSON" -> ".json"
      [] OTHER -> ext

\* file name of a directory entry [base, ext]
FileName(f) == f.base \o f.ext

---------------------------------------------------------------------------
(* image_enhancement.py *)

image_extensions == {".png", ".jpg", ".jpeg", ".bmp", ".tiff"}

\* the order of the if-blocks of apply_enhancement
TransformOrder == <<"brightness", "contrast", "sharpness", "color", "blur_radius">>

\* enhance_params: a mapping key -> factor (factors in tenths)
ParamSets ==
    { p \in UNION {[K -> {0, 13}] : K \in SUBSET Range(TransformOrder)} :
        \A key \in DOMAIN p : key # "blur_radius" => p[key] # 0 }

\* no image bound
NoImage == [src |-> "", mode |-> "", ops |-> <<>>]

\* Image.open(img_path): the decoded source image in its stored colour mode
Opened(f, mode) == [src |-> FileName(f), mode |-> mode, ops |-> <<>>]

\* img.convert('RGB')
ConvertRGB(image) ==
    [image EXCEPT !.mode = "RGB", !.ops = Append(image.ops, <<"convert", "RGB">>)]

\* lines 93-94
NormalizeMode(image) == IF image.mode # "RGB" THEN ConvertRGB(image) ELSE image

\* ImageEnhance.X(image).enhance(factor) / image.filter(GaussianBlur(radius)):
\* a new image holding the transformed pixels
Transform(image, key, factor) == [image EXCEPT !.ops = Append(image.ops, <<key, factor>>)]

\* one if-block of apply_enhancement
ApplyStep(image, params, key) ==
    IF key \in DOMAIN params /\ (key = "blur_radius" => params[key] > 0)
    THEN Transform(image, key, params[key])
    ELSE image

\* apply_enhancement with brightness and contrast swapped
apply_enhancement_swapped(image, params) ==
    LET c  == ApplyStep(image, params, "contrast")
        b  == ApplyStep(c, params, "brightness")
        s  == ApplyStep(b, params, "sharpness")
        co == ApplyStep(s, params, "color")
        bl == ApplyStep(co, params, "blur_radius")
    IN  [result |-> bl, image |-> image]

\* apply_enhancement(image, enhance_params): the returned image, and the
\* caller's image as it is after the call
apply_enhancement(image, params) ==
    LET copy == image
        b  == ApplyStep(copy, params, "brightness")
        c  == ApplyStep(b, params, "contrast")
        s  == ApplyStep(c, params, "sharpness")
        co == ApplyStep(s, params, "color")
        bl == ApplyStep(co, params, "blur_radius")
    IN  [result |-> bl, image |-> image]

\* the configuration documents tried
NoEnhancementsKey == [has |-> FALSE, enhancements |-> <<>>]

Enh(alias, params) == [alias |-> alias, parameters |-> params]

Configs ==
    { NoEnhancementsKey,
      [has |-> TRUE, enhancements |-> <<>>],
      [has |-> TRUE, enhancements |-> <<Enh("a", [brightness |-> 13, blur_radius |-> 0])>>],
      [has |-> TRUE, enhancements |->
          <<Enh("a", [brightness |-> 13, contrast |-> 13]), Enh("b", [blur_radius |-> 13])>>] }

\* the image directories tried: entries [base, ext]
ImageEntries ==
    { [base |-> "X", ext |-> ".png"], [base |-> "X", ext |-> ".JPG"],
      [base |-> "Y", ext |-> ".png"], [base |-> "notes", ext |-> ".txt"] }

ImageModes == {"RGB", "L"}

\* f"{base_name}_{alias}{ext}"
new_img_name(f, alias) == f.base \o "_" \o alias \o f.ext

\* f"{base_name}_{alias}.json"
new_ann_name(f, alias) == f.base \o "_" \o alias \o ".json"

\* os.path.join(output_root, f'images_{alias}', new_img_name)
img_output_path(f, alias) == "images_" \o alias \o "/" \o new_img_name(f, alias)

\* os.path.join(output_root, f'annotations_{alias}', new_ann_name)
ann_output_path(f, alias) == "annotations_" \o alias \o "/" \o new_ann_name(f, alias)

\* the annotation document of base name X: opaque but for imagePath
SourceAnnotation(base) == [imagePath |-> base \o ".orig", origin |-> base \o ".json"]

enhancements == config.enhancements

\* the exception is not caught and ends the run
ImageFailureEscapes == "Traceback"

\* where control goes when the try of lines 89-124 catches an exception
AfterImageFailure == "loop"

\* the exception is not caught by the inner try and ends the run
AnnotationFailureEscapes == "Traceback"

\* where control goes when the try of lines 109-119 catches an exception
AfterAnnotationFailure == "aliases"

\* main: lines 134-144, and the directory creation of lines 67-70
EnhMain ==
    /\ prog = "enhancer" /\ pc = "main"
    /\ IF ~config.has
       THEN /\ pc' = "config_error"
            /\ dirs' = dirs
       ELSE /\ pc' = "loop"
            /\ dirs' = UNION {{"images_" \o e.alias, "annotations_" \o e.alias} :
                              e \in Range(enhancements)}
    /\ UNCHANGED <<prog, listing, i, visited, log, annotated, config, k, img, enhanced,
                   imgOut, annOut, args, classes, data, txtOut, ret>>

\* lines 74-77: an entry without an image extension
EnhSkipNonImage ==
    /\ prog = "enhancer" /\ pc = "loop" /\ i <= Len(listing)
    /\ Lower(listing[i].ext) \notin image_extensions
    /\ visited' = Append(visited, listing[i])
    /\ i' = i + 1
    /\ UNCHANGED <<prog, pc, listing, log, annotated, config, dirs, k, img, enhanced,
                   imgOut, annOut, args, classes, data, txtOut, ret>>

\* the skip of an image without annotation, with no notice printed
EnhSkipUnannotated_Silent ==
    /\ prog = "enhancer" /\ pc = "loop" /\ i <= Len(listing)
    /\ Lower(listing[i].ext) \in image_extensions
    /\ listing[i].base \notin annotated
    /\ visited' = Append(visited, listing[i])
    /\ i' = i + 1
    /\ UNCHANGED <<prog, pc, listing, log, annotated, config, dirs, k, img, enhanced,
                   imgOut, annOut, args, classes, data, txtOut, ret>>

\* lines 79-87: an image without annotation
EnhSkipUnannotated ==
    /\ prog = "enhancer" /\ pc = "loop" /\ i <= Len(listing)
    /\ Lower(listing[i].ext) \in image_extensions
    /\ listing[i].base \notin annotated
    /\ visited' = Append(visited, listing[i])
    /\ log' = Append(log, <<"Skipping unannotated file", FileName(listing[i])>>)
    /\ i' = i + 1
    /\ UNCHANGED <<prog, pc, listing, annotated, config, dirs, k, img, enhanced,
                   imgOut, annOut, args, classes, data, txtOut, ret>>

\* lines 89-94: open the image and normalise its mode; a failure is caught at 123
EnhOpenImage ==
    /\ prog = "enhancer" /\ pc = "loop" /\ i <= Len(listing)
    /\ Lower(listing[i].ext) \in image_extensions
    /\ listing[i].base \in annotated
    /\ visited' = Append(visited, listing[i])
    /\ enhanced' = Empty
    /\ \E ok \in BOOLEAN :
         IF ok
         THEN /\ \E mode \in ImageModes : img' = NormalizeMode(Opened(listing[i], mode))
              /\ k' = 1
              /\ pc' = "aliases"
              /\ UNCHANGED <<i, log>>
         ELSE /\ log' = Append(log, <<"Failed to process image", FileName(listing[i])>>)
              /\ pc' = AfterImageFailure
              /\ i' = IF AfterImageFailure = "loop" THEN i + 1 ELSE i
              /\ UNCHANGED <<img, k>>
    /\ UNCHANGED <<prog, listing, annotated, config, dirs, imgOut, annOut,
                   args, classes, data, txtOut, ret>>

\* the alias step with the enhanced image never saved
EnhSaveImage_NoSave ==
    /\ prog = "enhancer" /\ pc = "aliases" /\ k <= Len(enhancements)
    /\ LET r == apply_enhancement(img, enhancements[k].parameters)
       IN  /\ img' = r.image
           /\ enhanced' = Append(enhanced, [alias |-> enhancements[k].alias,
                                            from |-> img, to |-> r.result])
           /\ pc' = "annotation"
    /\ UNCHANGED <<prog, listing, i, visited, log, annotated, config, dirs, k, imgOut,
                   annOut, args, classes, data, txtOut, ret>>

\* lines 97-106: enhance and save one alias; a failure is caught at 123
EnhSaveImage ==
    /\ prog = "enhancer" /\ pc = "aliases" /\ k <= Len(enhancements)
    /\ LET f     == listing[i]
           alias == enhancements[k].alias
           r     == apply_enhancement(img, enhancements[k].parameters)
       IN  \E ok \in BOOLEAN :
             IF ok
             THEN /\ img' = r.image
                  /\ enhanced' = Append(enhanced, [alias |-> alias, from |-> img, to |-> r.result])
                  /\ imgOut' = Put(imgOut, img_output_path(f, alias), r.result)
                  /\ pc' = "annotation"
                  /\ UNCHANGED <<i, k, log>>
             ELSE /\ log' = Append(log, <<"Failed to process image", FileName(f)>>)
                  /\ img' = NoImage
                  /\ pc' = AfterImageFailure
                  /\ i' = IF AfterImageFailure = "loop" THEN i + 1 ELSE i
                  /\ UNCHANGED <<k, enhanced, imgOut>>
    /\ UNCHANGED <<prog, listing, visited, annotated, config, dirs, annOut,
                   args, classes, data, txtOut, ret>>

\* lines 109-119: rewrite and save the annotation of one alias
EnhWriteAnnotation ==
    /\ prog = "enhancer" /\ pc = "annotation"
    /\ LET f     == listing[i]
           alias == enhancements[k].alias
       IN  \E ok \in BOOLEAN :
             IF ok
             THEN /\ annOut' = Put(annOut, ann_output_path(f, alias),
                                   [SourceAnnotation(f.base) EXCEPT
                                        !.imagePath = new_img_name(f, alias)])
                  /\ pc' = "aliases"
                  /\ k' = k + 1
                  /\ UNCHANGED log
             ELSE /\ log' = Append(log, <<"Failed to process annotation", f.base \o ".json">>)
                  /\ pc' = AfterAnnotationFailure
                  /\ k' = IF AfterAnnotationFailure = "aliases" THEN k + 1 ELSE k
                  /\ UNCHANGED annOut
    /\ UNCHANGED <<prog, listing, i, visited, annotated, config, dirs, img, enhanced,
                   imgOut, args, classes, data, txtOut, ret>>

\* line 121, and the close of the with-block
EnhProcessed ==
    /\ prog = "enhancer" /\ pc = "aliases" /\ k > Len(enhancements)
    /\ log' = Append(log, <<"Processed", FileName(listing[i])>>)
    /\ img' = NoImage
    /\ i' = i + 1
    /\ pc' = "loop"
    /\ UNCHANGED <<prog, listing, visited, annotated, config, dirs, k, enhanced,
                   imgOut, annOut, args, classes, data, txtOut, ret>>

\* line 145
EnhDone ==
    /\ prog = "enhancer" /\ pc = "loop" /\ i > Len(listing)
    /\ log' = Append(log, <<"All image enhancement processing completed!", "">>)
    /\ pc' = "done"
    /\ UNCHANGED <<prog, listing, i, visited, annotated, config, dirs, k, img, enhanced,
                   imgOut, annOut, args, classes, data, txtOut, ret>>

---------------------------------------------------------------------------
(* json2txt_converter.py *)

\* data.get(key) of an absent key, and JSON null
None == -1

\* `not v` of Python: of a string or None (an option not given, an absent label
\* are both ""), of a number or None, of a list
FalsyStr(v) == v = ""
FalsyNum(v) == v = None \/ v = 0
FalsyList(v) == Len(v) = 0

\* str.strip() on the class-name tokens that occur
Strip(t) ==
    CASE t = "dog\n" -> "dog"
      [] t = "\n" -> ""
      [] t = " cat \n" -> "cat"
      [] t = " " -> ""
      [] t = "dog " -> "dog"
      [] OTHER -> t

\* iterating the lines of a class file; <<"missing">> when it cannot be opened
FileLines(path) ==
    CASE path = "classes.txt" -> <<"dog\n", "\n", " cat \n">>
      [] OTHER -> <<"missing">>

FileExists(path) == path = "classes.txt"

\* classes_str.split(',')
SplitComma(str) ==
    CASE str = "cat, ,dog " -> <<"cat", " ", "dog ">>
      [] OTHER -> <<str>>

\* [t.strip() for t in tokens if t.strip()]
RECURSIVE StripNonBlank(_)
StripNonBlank(tokens) ==
    IF tokens = <<>> THEN <<>>
    ELSE LET rest == StripNonBlank(Tail(tokens))
         IN  IF FalsyStr(Strip(Head(tokens))) THEN rest ELSE <<Strip(Head(tokens))>> \o rest

\* load_classes(classes_file, classes_str): the list returned, or the error raised
load_classes(classes_file, classes_str) ==
    IF ~FalsyStr(classes_file)
    THEN IF FileExists(classes_file)
         THEN [raised |-> "", value |-> StripNonBlank(FileLines(classes_file))]
         ELSE [raised |-> "FileNotFoundError", value |-> <<>>]
    ELSE IF ~FalsyStr(classes_str)
    THEN [raised |-> "", value |-> StripNonBlank(SplitComma(classes_str))]
    ELSE [raised |-> "ValueError", value |-> <<>>]

\* the command lines tried; "" is an option that was not given
ClassFileArgs == {"", "classes.txt", "missing.txt"}
ClassStrArgs == {"", "cat, ,dog "}
Formats == {"yolo", "voc"}

\* the annotation directories tried
JsonEntries ==
    { [base |-> "A", ext |-> ".json"], [base |-> "B", ext |-> ".JSON"],
      [base |-> "notes", ext |-> ".txt"] }

\* shapes; coordinates are in hundredths of a pixel, "" is an absent label
Pt(x, y) == <<x, y>>
ShapeChoices ==
    { [label |-> "dog",  points |-> <<Pt(5000, 10000)>>],
      [label |-> "cat",  points |-> <<Pt(1234, 6789), Pt(5000, 10000)>>],
      [label |-> "dog",  points |-> <<>>],
      [label |-> "bird", points |-> <<Pt(5000, 10000)>>],
      [label |-> "bird", points |-> <<>>],
      [label |-> "",     points |-> <<Pt(5000, 10000)>>] }

\* what open() + json.load() of an annotation file can give
Document(w, h, shapes) == [kind |-> "json", imageWidth |-> w, imageHeight |-> h, shapes |-> shapes]
NoData == [kind |-> "none", imageWidth |-> None, imageHeight |-> None, shapes |-> <<>>]
Undecodable == [NoData EXCEPT !.kind = "UnicodeDecodeError"]
InvalidJson == [NoData EXCEPT !.kind = "JSONDecodeError"]
\* documents that fail to decode or parse
BrokenDocuments == {Undecodable, InvalidJson}
\* documents that parse
ParsedDocuments ==
    {Document(100, None, <<>>), Document(0, 200, <<>>)}
    \cup {Document(100, 200, ss) : ss \in SeqsUpTo(ShapeChoices, MaxShapes)}

\* the decimal digits of n, zero-padded to width
RECURSIVE Digits(_, _)
Digits(n, width) ==
    IF width = 0 THEN "" ELSE Digits(n \div 10, width - 1) \o ToString(n % 10)

RECURSIVE Pow10(_)
Pow10(n) == IF n = 0 THEN 1 ELSE 10 * Pow10(n - 1)

\* f"{v / den:.{places}f}" for the coordinate v of c hundredths of a pixel and
\* den > 0: v/den rounded to the nearest multiple of 10^-places (no value tried
\* lies on a rounding tie)
Fixed(c, den, places) ==
    LET up   == Pow10(IF places > 2 THEN places - 2 ELSE 0)
        down == Pow10(IF places < 2 THEN 2 - places ELSE 0)
        q    == (2 * c * up + den * down) \div (2 * den * down)
    IN  ToString(q \div Pow10(places)) \o "." \o Digits(q % Pow10(places), places)

\* ' '.join(strs)
RECURSIVE Join(_)
Join(strs) ==
    IF strs = <<>> THEN ""
    ELSE IF Len(strs) = 1 THEN strs[1]
    ELSE strs[1] \o " " \o Join(Tail(strs))

\* ''.join(lines), what writelines puts in the file
RECURSIVE Concat(_)
Concat(lines) == IF lines = <<>> THEN "" ELSE Head(lines) \o Concat(Tail(lines))

\* classes.index(label) counted from 1 instead of 0
class_idx_one_based(cls, label) == CHOOSE j \in 1..Len(cls) : cls[j] = label /\ \A m \in 1..(j - 1) : cls[m] # label

\* classes.index(label), label in classes
class_idx(cls, label) == (CHOOSE j \in 1..Len(cls) : cls[j] = label /\ \A m \in 1..(j - 1) : cls[m] # label) - 1

\* lines 75-82: the line of one shape with label and points
txt_line(shape, cls, fmt, img_w, img_h) ==
    IF fmt = "yolo"
    THEN ToString(class_idx(cls, shape.label)) \o " "
         \o Join([n \in DOMAIN shape.points |->
                    Fixed(shape.points[n][1], img_w, 6) \o " "
                    \o Fixed(shape.points[n][2], img_h, 6)]) \o "\n"
    ELSE shape.label \o " "
         \o Join([n \in DOMAIN shape.points |->
                    Fixed(shape.points[n][1], 1, 1) \o " "
                    \o Fixed(shape.points[n][2], 1, 1)]) \o "\n"

\* lines 59-84: the loop over data['shapes'], from txt_content = done
RECURSIVE shapes_loop(_, _, _, _, _, _)
shapes_loop(shapes, done, cls, fmt, img_w, img_h) ==
    IF shapes = <<>> THEN [raised |-> "", txt_content |-> done]
    ELSE LET shape == Head(shapes) IN
         IF FalsyStr(shape.label)
         THEN shapes_loop(Tail(shapes), done, cls, fmt, img_w, img_h)
         ELSE IF shape.label \notin Range(cls)
         THEN [raised |-> "Unknown class", txt_content |-> done]
         ELSE IF FalsyList(shape.points)
         THEN shapes_loop(Tail(shapes), done, cls, fmt, img_w, img_h)
         ELSE shapes_loop(Tail(shapes),
                          Append(done, txt_line(shape, cls, fmt, img_w, img_h)),
                          cls, fmt, img_w, img_h)

\* lines 51-89 with the file written as the shapes are transcoded
convert_file_streaming(doc, cls, fmt) ==
    IF FalsyNum(doc.imageHeight) \/ FalsyNum(doc.imageWidth)
    THEN [raised |-> "Image dimensions not found in JSON", write |-> FALSE, content |-> ""]
    ELSE LET r == shapes_loop(doc.shapes, <<>>, cls, fmt, doc.imageWidth, doc.imageHeight)
         IN  [raised |-> r.raised, write |-> TRUE, content |-> Concat(r.txt_content)]

\* lines 51-89: the rest of the try body for one parsed document: the exception
\* raised, if any, and the write
convert_file(doc, cls, fmt) ==
    IF FalsyNum(doc.imageHeight) \/ FalsyNum(doc.imageWidth)
    THEN [raised |-> "Image dimensions not found in JSON", write |-> FALSE, content |-> ""]
    ELSE LET r == shapes_loop(doc.shapes, <<>>, cls, fmt, doc.imageWidth, doc.imageHeight)
         IN  IF r.raised # ""
             THEN [raised |-> r.raised, write |-> FALSE, content |-> ""]
             ELSE [raised |-> "", write |-> TRUE, content |-> Concat(r.txt_content)]

\* lines 91-96: the line printed for a caught exception
FailureMessage(raised) ==
    CASE raised = "UnicodeDecodeError" -> "Skipping file with encoding issues"
      [] raised = "JSONDecodeError" -> "Skipping invalid JSON file"
      [] OTHER -> "Error processing"

\* line 27: the annotation List[str] names an undefined List; evaluated when the
\* def statement runs (eager annotations) it raises NameError, deferred it does not
ConvImport ==
    /\ prog = "converter" /\ pc = "import"
    /\ \E eager \in BOOLEAN : pc' = IF eager THEN "NameError" ELSE "main"
    /\ UNCHANGED <<prog, listing, i, visited, log, annotated, config, dirs, k, img,
                   enhanced, imgOut, annOut, args, classes, data, txtOut, ret>>

\* main: lines 108-116
ConvMain ==
    /\ prog = "converter" /\ pc = "main"
    /\ IF FalsyStr(args.classes_file) /\ FalsyStr(args.classes)
       THEN /\ pc' = "usage_error"
            /\ UNCHANGED <<classes, log>>
       ELSE LET r == load_classes(args.classes_file, args.classes)
            IN  IF r.raised # ""
                THEN /\ pc' = r.raised
                     /\ UNCHANGED <<classes, log>>
                ELSE /\ classes' = r.value
                     /\ log' = Append(log, <<"Loaded classes", ToString(Len(r.value))>>)
                     /\ pc' = "loop"
    /\ UNCHANGED <<prog, listing, i, visited, annotated, config, dirs, k, img,
                   enhanced, imgOut, annOut, args, data, txtOut, ret>>

\* lines 41-43
ConvSkipNonJson ==
    /\ prog = "converter" /\ pc = "loop" /\ i <= Len(listing)
    /\ Lower(listing[i].ext) # ".json"
    /\ visited' = Append(visited, listing[i])
    /\ i' = i + 1
    /\ UNCHANGED <<prog, pc, listing, log, annotated, config, dirs, k, img,
                   enhanced, imgOut, annOut, args, classes, data, txtOut, ret>>

\* where control goes when one of the except clauses of lines 91-96 is taken
AfterFileFailure == "loop"

\* lines 45-49: open and parse one .json file; a failure is caught at 91 or 93
ConvRead ==
    /\ prog = "converter" /\ pc = "loop" /\ i <= Len(listing)
    /\ Lower(listing[i].ext) = ".json"
    /\ visited' = Append(visited, listing[i])
    /\ \/ /\ \E doc \in BrokenDocuments :
                 log' = Append(log, <<FailureMessage(doc.kind), FileName(listing[i])>>)
          /\ pc' = AfterFileFailure
          /\ i' = IF AfterFileFailure = "loop" THEN i + 1 ELSE i
          /\ UNCHANGED data
       \/ /\ data' \in ParsedDocuments
          /\ pc' = "file"
          /\ UNCHANGED <<i, log>>
    /\ UNCHANGED <<prog, listing, annotated, config, dirs, k, img,
                   enhanced, imgOut, annOut, args, classes, txtOut, ret>>

\* lines 51-96: transcode the parsed document and write the .txt file; a failure
\* is caught at 95
ConvTranscode ==
    /\ prog = "converter" /\ pc = "file"
    /\ LET r == convert_file(data, classes, args.format) IN
         /\ txtOut' = IF r.write THEN Put(txtOut, listing[i].base \o ".txt", r.content)
                      ELSE txtOut
         /\ IF r.raised # ""
            THEN /\ log' = Append(log, <<FailureMessage(r.raised), FileName(listing[i])>>)
                 /\ pc' = AfterFileFailure
                 /\ i' = IF AfterFileFailure = "loop" THEN i + 1 ELSE i
            ELSE /\ pc' = "loop"
                 /\ i' = i + 1
                 /\ UNCHANGED log
    /\ data' = NoData
    /\ UNCHANGED <<prog, listing, visited, annotated, config, dirs, k, img,
                   enhanced, imgOut, annOut, args, classes, ret>>

\* line 120
ConvDone ==
    /\ prog = "converter" /\ pc = "loop" /\ i > Len(listing)
    /\ log' = Append(log, <<"Annotation format conversion completed!", "">>)
    /\ pc' = "done"
    /\ UNCHANGED <<prog, listing, i, visited, annotated, config, dirs, k, img,
                   enhanced, imgOut, annOut, args, classes, data, txtOut, ret>>

---------------------------------------------------------------------------
(* direct calls of the two leaf functions *)

CallApplyEnhancement ==
    /\ prog = "apply_enhancement" /\ pc = "call"
    /\ ret' = apply_enhancement(args.image, args.params)
    /\ pc' = "returned"
    /\ UNCHANGED <<prog, listing, i, visited, log, annotated, config, dirs, k, img,
                   enhanced, imgOut, annOut, args, classes, data, txtOut>>

CallLoadClasses ==
    /\ prog = "load_classes" /\ pc = "call"
    /\ ret' = load_classes(args.classes_file, args.classes)
    /\ pc' = "returned"
    /\ UNCHANGED <<prog, listing, i, visited, log, annotated, config, dirs, k, img,
                   enhanced, imgOut, annOut, args, classes, data, txtOut>>

---------------------------------------------------------------------------
(* Specification *)

Listings(entries) == {s \in SeqsUpTo(entries, MaxFiles) : Distinct(s)}

NoArgs == [none |-> TRUE]

InitCommon ==
    /\ i = 1 /\ visited = <<>> /\ log = <<>>
    /\ dirs = {} /\ k = 1 /\ img = NoImage /\ enhanced = Empty
    /\ imgOut = Empty /\ annOut = Empty
    /\ classes = <<>> /\ data = NoData /\ txtOut = Empty
    /\ ret = NoArgs

InitEnhancer ==
    /\ prog = "enhancer" /\ pc = "main"
    /\ listing \in Listings(ImageEntries)
    /\ annotated \in SUBSET {"X", "Y"}
    /\ config \in Configs
    /\ args = NoArgs

InitConverter ==
    /\ prog = "converter" /\ pc = "import"
    /\ listing \in Listings(JsonEntries)
    /\ annotated = {} /\ config = NoEnhancementsKey
    /\ args \in [classes_file : ClassFileArgs, classes : ClassStrArgs, format : Formats]

InitApply ==
    /\ prog = "apply_enhancement" /\ pc = "call"
    /\ listing = <<>> /\ annotated = {} /\ config = NoEnhancementsKey
    /\ args \in [image : {NormalizeMode(Opened([base |-> "X", ext |-> ".png"], m)) : m \in ImageModes},
                 params : ParamSets]

InitLoadClasses ==
    /\ prog = "load_classes" /\ pc = "call"
    /\ listing = <<>> /\ annotated = {} /\ config = NoEnhancementsKey
    /\ args \in [classes_file : ClassFileArgs, classes : ClassStrArgs]

Init == InitCommon /\ (InitEnhancer \/ InitConverter \/ InitApply \/ InitLoadClasses)

Next ==
    \/ EnhMain \/ EnhSkipNonImage \/ EnhSkipUnannotated \/ EnhOpenImage
    \/ EnhSaveImage \/ EnhWriteAnnotation \/ EnhProcessed \/ EnhDone
    \/ ConvImport \/ ConvMain \/ ConvSkipNonJson \/ ConvRead \/ ConvTranscode \/ ConvDone
    \/ CallApplyEnhancement \/ CallLoadClasses

Spec == Init /\ [][Next]_vars

\* every step but the transcoding of a parsed document
StepButTranscode ==
    \/ EnhMain \/ EnhSkipNonImage \/ EnhSkipUnannotated \/ EnhOpenImage
    \/ EnhSaveImage \/ EnhWriteAnnotation \/ EnhProcessed \/ EnhDone
    \/ ConvImport \/ ConvMain \/ ConvSkipNonJson \/ ConvRead \/ ConvDone
    \/ CallApplyEnhancement \/ CallLoadClasses

\* both programs are single sequential runs with nothing to wait for but blocking
\* I/O: a run that has not ended takes its next step. The last conjunct is
\* WF_vars(ConvTranscode), with ENABLED <<ConvTranscode>>_vars written out as
\* pc = "file".
FairSpec ==
    /\ Spec
    /\ WF_vars(StepButTranscode)
    /\ ([]<>(pc # "file") \/ []<><<ConvTranscode>>_vars)

---------------------------------------------------------------------------
(* Vocabulary of the properties *)

Logged(kind, name) == \E n \in DOMAIN log : log[n] = <<kind, name>>

LastLogged(kind) == Len(log) > 0 /\ log[Len(log)][1] = kind

Aliases == {e.alias : e \in Range(enhancements)}

IsImage(f) == Lower(f.ext) \in image_extensions

\* directory entries that are images with a same-base-name annotation
Matched == {f \in Range(listing) : IsImage(f) /\ f.base \in annotated}

\* images without annotation
Unannotated == {f \in Range(listing) : IsImage(f) /\ f.base \notin annotated}

EnhancerRan == prog = "enhancer" /\ pc \in {"loop", "aliases", "annotation", "done"}

NoStepFailed ==
    \A n \in DOMAIN log :
        log[n][1] \notin {"Failed to process image", "Failed to process annotation"}

---------------------------------------------------------------------------
(* C1 *)

\* C1: a run of process_dataset in which no step fails, over N matched images
\* (two of which may share a base name) and M aliases, ends with exactly N*M
\* enhanced images and N*M rewritten annotations, every matched image and alias
\* having an annotation whose imagePath is the name of the enhanced image of that
\* image and alias.
C1_NxMOutputs ==
    (prog = "enhancer" /\ pc = "done" /\ NoStepFailed) =>
        LET N == Cardinality(Matched)
            M == Cardinality(Aliases)
        IN  /\ Cardinality(DOMAIN imgOut) = N * M
            /\ Cardinality(DOMAIN annOut) = N * M
            /\ \A f \in Matched : \A a \in Aliases :
                 /\ img_output_path(f, a) \in DOMAIN imgOut
                 /\ ann_output_path(f, a) \in DOMAIN annOut
                 /\ annOut[ann_output_path(f, a)].imagePath = new_img_name(f, a)

---------------------------------------------------------------------------
(* C2 *)

\* C2: for an image of the directory without <baseName>.json no file is ever
\* written, for any alias; once the loop has reached it a skip notice is logged
\* and the loop is past it, at the next entry.
C2_UnannotatedSkipped ==
    EnhancerRan =>
        /\ \A f \in Unannotated : \A a \in Aliases :
             /\ img_output_path(f, a) \notin DOMAIN imgOut
             /\ ann_output_path(f, a) \notin DOMAIN annOut
        /\ \A j \in DOMAIN visited :
             visited[j] \in Unannotated =>
                /\ Logged("Skipping unannotated file", FileName(visited[j]))
                /\ ~Logged("Failed to process image", FileName(visited[j]))
                /\ ~Logged("Processed", FileName(visited[j]))
                /\ i > j

\* an unannotated image was skipped and the entry after it produced output
C2_Witness ==
    /\ prog = "enhancer" /\ pc = "done"
    /\ Len(listing) = 2
    /\ listing[1] \in Unannotated
    /\ listing[2] \in Matched
    /\ img_output_path(listing[2], "a") \in DOMAIN imgOut
    /\ ann_output_path(listing[2], "a") \in DOMAIN annOut

---------------------------------------------------------------------------
(* C3 *)

\* the step just taken printed this failure line
JustLogged(kind) == Len(log') = Len(log) + 1 /\ log'[Len(log')][1] = kind

\* C3: a failure on the annotation of one (image, alias) pair is logged and the
\* loop goes on with the next alias of the same image; a failure opening,
\* enhancing or saving the image is logged, writes nothing more for that image
\* and goes on with the next directory entry; and a finished run has visited
\* every entry, each matched image either processed through all its aliases
\* (image saved; annotation saved or its failure logged) or logged as failed.
C3_FailureIsolation ==
    /\ [][ (prog = "enhancer" /\ JustLogged("Failed to process annotation")) =>
              /\ pc = "annotation" /\ pc' = "aliases"
              /\ k' = k + 1 /\ i' = i
              /\ imgOut' = imgOut /\ annOut' = annOut ]_vars
    /\ [][ (prog = "enhancer" /\ JustLogged("Failed to process image")) =>
              /\ pc' = "loop" /\ i' = i + 1
              /\ imgOut' = imgOut /\ annOut' = annOut ]_vars
    /\ [] ( (prog = "enhancer" /\ pc = "done") =>
              /\ visited = listing
              /\ \A f \in Matched :
                   /\ Logged("Processed", FileName(f)) # Logged("Failed to process image", FileName(f))
                   /\ Logged("Processed", FileName(f)) =>
                        \A a \in Aliases :
                          /\ img_output_path(f, a) \in DOMAIN imgOut
                          /\ \/ ann_output_path(f, a) \in DOMAIN annOut
                             \/ Logged("Failed to process annotation", f.base \o ".json") )

\* the first image failed on its first alias's annotation and still got its second
\* alias; the second image failed as a whole; the run finished
C3_Witness ==
    /\ prog = "enhancer" /\ pc = "done"
    /\ Len(listing) = 2 /\ listing[1] \in Matched /\ listing[2] \in Matched
    /\ Len(enhancements) = 2
    /\ Logged("Failed to process annotation", listing[1].base \o ".json")
    /\ Logged("Processed", FileName(listing[1]))
    /\ ann_output_path(listing[1], "a") \notin DOMAIN annOut
    /\ ann_output_path(listing[1], "b") \in DOMAIN annOut
    /\ Logged("Failed to process image", FileName(listing[2]))

---------------------------------------------------------------------------
(* C9 *)

\* the transforms apply_enhancement is to apply for params, in the fixed order
ExpectedOps(params) ==
    LET Applies(key) == key \in DOMAIN params /\ (key = "blur_radius" => params[key] > 0)
        keys == SelectSeq(TransformOrder, Applies)
    IN  [n \in 1..Len(keys) |-> <<keys[n], params[keys[n]]>>]

\* the RGB-normalised images the entry f can open as
Originals(f) == {NormalizeMode(Opened(f, m)) : m \in ImageModes}

\* C9: apply_enhancement returns its argument's pixels with exactly the present
\* transforms applied in the order brightness, contrast, sharpness, color, blur
\* (blur only for a radius > 0), and leaves its argument as it was; in
\* process_dataset `img` stays the RGB-normalised original of the current entry
\* while its aliases are produced, and every alias is computed from it.
C9_FixedOrderOnCopy ==
    /\ (prog = "apply_enhancement" /\ pc = "returned") =>
          /\ ret.result = [args.image EXCEPT !.ops = args.image.ops \o ExpectedOps(args.params)]
          /\ ret.image = args.image
    /\ (prog = "enhancer" /\ pc \in {"aliases", "annotation"}) =>
          /\ img \in Originals(listing[i])
          /\ img.mode = "RGB"
          /\ \A n \in DOMAIN enhanced :
               /\ enhanced[n].alias = enhancements[n].alias
               /\ enhanced[n].from = img
               /\ enhanced[n].to =
                    [img EXCEPT !.ops = img.ops \o ExpectedOps(enhancements[n].parameters)]
               /\ imgOut[img_output_path(listing[i], enhanced[n].alias)] = enhanced[n].to

\* two aliases of one converted image have been produced, the first by brightness
\* then contrast
C9_Witness ==
    /\ prog = "enhancer" /\ pc = "annotation"
    /\ Len(enhanced) = 2
    /\ enhanced[1].to.ops = << <<"convert", "RGB">>, <<"brightness", 13>>, <<"contrast", 13>> >>
    /\ enhanced[2].to.ops = << <<"convert", "RGB">>, <<"blur_radius", 13>> >>

---------------------------------------------------------------------------
(* C10 *)

\* C10: an annotation file <base>_<alias>.json exists under annotations_<alias>
\* only if an enhanced image of the same base name and alias exists under
\* images_<alias>; when the annotation of an alias is attempted its image is saved.
C10_AnnotationImpliesImage ==
    prog = "enhancer" =>
        /\ \A path \in DOMAIN annOut :
             \E f \in Range(listing) : \E a \in Aliases :
                /\ path = ann_output_path(f, a)
                /\ \E g \in Range(listing) :
                     g.base = f.base /\ img_output_path(g, a) \in DOMAIN imgOut
        /\ pc = "annotation" =>
             img_output_path(listing[i], enhancements[k].alias) \in DOMAIN imgOut

\* an annotation was written for one alias while another alias's image stands
\* without annotation after its annotation failed
C10_Witness ==
    /\ prog = "enhancer" /\ pc = "done"
    /\ Len(listing) = 1
    /\ ann_output_path(listing[1], "b") \in DOMAIN annOut
    /\ img_output_path(listing[1], "a") \in DOMAIN imgOut
    /\ ann_output_path(listing[1], "a") \notin DOMAIN annOut
    /\ Logged("Failed to process annotation", listing[1].base \o ".json")

---------------------------------------------------------------------------
(* C4 *)

IsJson(f) == Lower(f.ext) = ".json"

ConvFailureLines ==
    {"Skipping file with encoding issues", "Skipping invalid JSON file", "Error processing"}

\* the step just taken printed a per-file failure line of the converter
JustFailedFile == Len(log') = Len(log) + 1 /\ log'[Len(log')][1] \in ConvFailureLines

FileFailed(f) == \E n \in DOMAIN log : log[n][1] \in ConvFailureLines /\ log[n][2] = FileName(f)

\* a parsed document the converter cannot convert: missing, null or zero
\* dimensions, or a labelled shape whose label is not in the class list
Unconvertible(doc) ==
    \/ doc.imageWidth \in {None, 0} \/ doc.imageHeight \in {None, 0}
    \/ \E n \in DOMAIN doc.shapes :
         doc.shapes[n].label # "" /\ doc.shapes[n].label \notin Range(classes)

\* C4: a file that fails conversion (undecodable, invalid JSON, dimensions missing,
\* null or zero, a label not in the class list) is logged and nothing is written
\* for it, the loop going on with the next entry; such a parsed document does
\* fail; and at the end of the run every .json entry that did not fail has its
\* <baseName>.txt, wherever the failing files stand in the listing.
C4_FailedFileWritesNothing ==
    /\ [][ (prog = "converter" /\ JustFailedFile) =>
              /\ txtOut' = txtOut
              /\ log'[Len(log')][2] = FileName(listing[i])
              /\ pc' = "loop" /\ i' = i + 1 ]_vars
    /\ [][ (prog = "converter" /\ pc = "file" /\ Unconvertible(data)) => JustFailedFile ]_vars
    /\ [] ( (prog = "converter" /\ pc = "done") =>
              /\ visited = listing
              /\ \A f \in Range(listing) :
                   IF IsJson(f)
                   THEN FileFailed(f) # (f.base \o ".txt" \in DOMAIN txtOut)
                   ELSE f.base \o ".txt" \notin DOMAIN txtOut )

\* the first file of the listing failed on an unknown class and the second has
\* its output
C4_Witness ==
    /\ prog = "converter" /\ pc = "done"
    /\ Len(listing) = 2
    /\ log[2] = <<"Error processing", FileName(listing[1])>>
    /\ DOMAIN txtOut = {listing[2].base \o ".txt"}
    /\ txtOut[listing[2].base \o ".txt"] # ""

---------------------------------------------------------------------------
(* C5 *)

\* C5: a shape without points (whatever its label, known or not) and a shape
\* without label are left out and never fail the file: a document with truthy
\* dimensions in which every shape that has points carries a known label or none
\* is converted and written.
C5_EmptyPointsNeverFail ==
    [][ ( /\ prog = "converter" /\ pc = "file"
          /\ data.imageWidth \notin {None, 0} /\ data.imageHeight \notin {None, 0}
          /\ \A n \in DOMAIN data.shapes :
               Len(data.shapes[n].points) > 0 =>
                  data.shapes[n].label \in Range(classes) \cup {""} )
        => /\ log' = log
           /\ listing[i].base \o ".txt" \in DOMAIN txtOut' ]_vars

---------------------------------------------------------------------------
(* C6 *)

GivenFile == args.classes_file # ""
GivenStr == args.classes # ""

\* C6: the class registry takes exactly one source: with neither a class file
\* nor an inline string the converter fails before any file is processed, with
\* both it is a usage error too, and with exactly one it gets the trimmed,
\* non-blank names in source order.
C6_ExactlyOneSource ==
    /\ (prog = "converter" /\ pc \notin {"import", "NameError", "main"}) =>
          /\ (~GivenFile /\ ~GivenStr) => (pc = "usage_error" /\ visited = <<>> /\ txtOut = Empty)
          /\ (GivenFile /\ GivenStr) => (pc = "usage_error" /\ visited = <<>> /\ txtOut = Empty)
          /\ (args.classes_file = "classes.txt" /\ ~GivenStr) =>
                (pc \in {"loop", "file", "done"} /\ classes = <<"dog", "cat">>)
          /\ (~GivenFile /\ GivenStr) =>
                (pc \in {"loop", "file", "done"} /\ classes = <<"cat", "dog">>)
    /\ (prog = "load_classes" /\ pc = "returned") =>
          /\ (~GivenFile /\ ~GivenStr) => ret.raised = "ValueError"
          /\ (GivenFile /\ GivenStr) => ret.raised # ""
          /\ (args.classes_file = "classes.txt" /\ ~GivenStr) =>
                (ret.raised = "" /\ ret.value = <<"dog", "cat">>)
          /\ (~GivenFile /\ GivenStr) => (ret.raised = "" /\ ret.value = <<"cat", "dog">>)

---------------------------------------------------------------------------
(* C7 *)

\* 0-based position of a class name in the class list
Position(cls, label) == CHOOSE n \in 0..(Len(cls) - 1) : cls[n + 1] = label

\* " x y" of every point, in point order
RECURSIVE Coordinates(_, _, _, _)
Coordinates(points, xden, yden, places) ==
    IF points = <<>> THEN ""
    ELSE " " \o Fixed(points[1][1], xden, places) \o " " \o Fixed(points[1][2], yden, places)
         \o Coordinates(Tail(points), xden, yden, places)

\* the line the formats prescribe for a shape with label and points
ExpectedLine(shape, doc) ==
    IF args.format = "yolo"
    THEN ToString(Position(classes, shape.label))
         \o Coordinates(shape.points, doc.imageWidth, doc.imageHeight, 6) \o "\n"
    ELSE shape.label \o Coordinates(shape.points, 1, 1, 1) \o "\n"

\* one line per shape with label and at least one point, in declaration order
ExpectedContent(doc) ==
    LET Emits(shape) == shape.label # "" /\ Len(shape.points) > 0
        emitting == SelectSeq(doc.shapes, Emits)
    IN  Concat([n \in 1..Len(emitting) |-> ExpectedLine(emitting[n], doc)])

DogAt50x100 == Document(100, 200, <<[label |-> "dog", points |-> <<Pt(5000, 10000)>>]>>)

\* the step just taken converted the parsed document and wrote its .txt
JustConverted == prog = "converter" /\ pc = "file" /\ pc' = "loop" /\ log' = log

\* C7: a file that converts gets as content of <baseName>.txt, in declaration
\* order, one newline-terminated line per shape with label and at least one point:
\* class index and x/imageWidth y/imageHeight to 6 decimals (normalized), or label
\* name and x y to 1 decimal (absolute); classes [cat, dog], dog at (50,100) on
\* 100x200 gives "1 0.500000 0.500000" and "dog 50.0 100.0".
C7_ContentOfConvertedFile ==
    [][ JustConverted =>
          /\ listing[i].base \o ".txt" \in DOMAIN txtOut'
          /\ txtOut'[listing[i].base \o ".txt"] = ExpectedContent(data)
          /\ \A name \in DOMAIN txtOut : name # listing[i].base \o ".txt" =>
                txtOut'[name] = txtOut[name]
          /\ (data = DogAt50x100 /\ classes = <<"cat", "dog">>) =>
                txtOut'[listing[i].base \o ".txt"] =
                    IF args.format = "yolo" THEN "1 0.500000 0.500000\n" ELSE "dog 50.0 100.0\n" ]_vars

\* a .txt holds the two lines of a dog shape followed by a cat shape, normalized,
\* for the class list [cat, dog]
C7_Witness ==
    /\ prog = "converter" /\ args.format = "yolo" /\ classes = <<"cat", "dog">>
    /\ \E name \in DOMAIN txtOut :
         txtOut[name] = "1 0.500000 0.500000\n0 0.123400 0.339450 0.500000 0.500000\n"

---------------------------------------------------------------------------
(* C8 *)

Accepted == prog \in {"enhancer", "converter"} /\ pc = "loop" /\ i = 1 /\ visited = <<>>

Completed ==
    /\ pc = "done"
    /\ visited = listing
    /\ LastLogged(IF prog = "enhancer" THEN "All image enhancement processing completed!"
                  ELSE "Annotation format conversion completed!")

\* C8: once the configuration is accepted, a run of either pipeline enters the
\* loop body for the entries of the listing one by one, in listing order, each
\* only when the one before is finished, and eventually prints its completion
\* line, whatever fails on the way.
C8_VisitsAllThenCompletes ==
    /\ [] (visited = SubSeq(listing, 1, Len(visited)))
    /\ [][ visited' # visited =>
              /\ pc = "loop" /\ img = NoImage /\ data = NoData
              /\ visited' = Append(visited, listing[i])
              /\ Len(visited') = i ]_vars
    /\ [] (pc = "done" => Completed)
    /\ (Accepted ~> Completed)

\* a run finished in which every entry failed
C8_Witness ==
    /\ pc = "done" /\ Len(listing) = 2
    /\ \/ /\ prog = "enhancer"
          /\ \A n \in 1..2 : log[n] = <<"Failed to process image", FileName(listing[n])>>
       \/ /\ prog = "converter"
          /\ \A n \in 1..2 : log[n + 1][1] \in ConvFailureLines

====
